---- MODULE Spec2Model ----
(***************************************************************************)
(* Four variants of the listings server, one chosen per behaviour:         *)
(*   "json"    src/server.js 1-216    JSON file + uploads dir, session     *)
(*   "nologin" src/server.js 218-481  Postgres, no credential check        *)
(*   "cookie"  src/server.js 483-730  Postgres, admin_auth cookie          *)
(*   "header"  src/unnamed/part_000   Postgres, x-admin-pass secret        *)
(* Request values are the strings a multipart/form body carries; numbers   *)
(* are kept as the text node-postgres puts on the wire ("100", "NaN").     *)
(***************************************************************************)
EXTENDS Integers, Sequences, FiniteSets, TLC

VARIABLES
    variant,      \* which server.js is running
    scope,        \* which part of the request space the clients use
    listings,     \* listings table (insertion order) / listings.json array
    images,       \* images table: set of rows
    uploadDir,    \* files under UPLOAD_DIR (json variant): set of names
    listingSeq,   \* listings_id_seq (last value) / uuids drawn for listings
    imageSeq,     \* images_id_seq (last value) / uuids drawn for file names
    clock,        \* NOW() / Date.now()
    sessions,     \* session ids whose req.session.auth is true
    last,         \* the request handled last and its response
    created,      \* history: listings stored, in order: id and clock reading
    uploaded,     \* history: file parts stored as images, by the id they got
    deletedImages, \* history: ids of the image rows that were removed
    sessionLog,   \* history: per session, the last of {correct login, logout}
    inflight,     \* json variant: requests received whose handler has not run yet
    raceLog,      \* history of the handled requests of `inflight`
    fbCache,      \* FB_CACHE of the json variant
    fbReqs,       \* requests of GET /api/facebook-reviews and where each stands
    fbLog         \* history: timestamps of the results stored, fetches that overlapped

vars == <<variant, scope, listings, images, uploadDir, listingSeq, imageSeq, clock,
          sessions, last, created, uploaded, deletedImages, sessionLog,
          inflight, raceLog,
          fbCache, fbReqs, fbLog>>

Variants == {"json", "nologin", "cookie", "header"}

\* The clients of one behaviour vary one part of their requests:
\*   "fields"  the form fields; no files, one clock reading
\*   "images"  files, remove_images and storage failures; the full form
\*   "clock"   the time between requests; the full form, no files
Scopes == {"fields", "images", "clock"}

\* ---------------------------------------------------------------- bounds
MaxListings == 2
MaxImages == 1
MaxFiles == 1
MaxClock == 1
MaxSessions == 1

\* ---------------------------------------------------------------- values
UNDEF == "<undefined>"
NULL == "<null>"
NaN == "NaN"

ADMIN_PASSWORD_json == "33201"
ADMIN_PASS == "Klaudia0050"

\* JS truthiness of a form value: undefined and "" are falsy
Truthy(v) == v # UNDEF /\ v # "" /\ v # NULL

\* a || b
Or(a, b) == IF Truthy(a) THEN a ELSE b

\* strings the requests of the model use that Number() reads as an integer
NumericStrings == {"0", "1", "2", "5", "50", "100", "150"}

\* Number(v): "" is 0, undefined and non-numeric text are NaN
Number(v) == IF v = "" THEN "0" ELSE IF v \in NumericStrings THEN v ELSE NaN

\* node-postgres sends undefined as NULL
PgParam(v) == IF v = UNDEF THEN NULL ELSE v

\* an INTEGER parameter must parse: "NaN" is rejected when the statement is bound
IntOk(v) == v = NULL \/ v \in NumericStrings

\* ------------------------------------------------------------ request inputs
BodyFields == {"title", "city", "district", "street", "price", "rooms", "area",
               "type", "floor", "balcony", "terrace", "garden", "description",
               "imageUrl"}

EmptyBody == [f \in BodyFields |-> UNDEF]

FullBody ==
    [title |-> "A", city |-> "X", district |-> "D", street |-> "S",
     price |-> "100", rooms |-> "2", area |-> "50", type |-> "T", floor |-> "1",
     balcony |-> "true", terrace |-> "true", garden |-> "true",
     description |-> "desc", imageUrl |-> UNDEF]

RequiredBody ==
    [EmptyBody EXCEPT !.title = "B", !.city = "X", !.price = "150",
                      !.rooms = "2", !.area = "50", !.type = "T"]

Bodies ==
    IF scope # "fields" THEN { FullBody } ELSE
    { FullBody,
      RequiredBody,
      [EmptyBody EXCEPT !.price = "150"],
      [RequiredBody EXCEPT !.title = UNDEF] }

\* a multipart file part as multer hands it over
FileSet ==
    { [ext |-> <<".", "p", "n", "g">>, mimetype |-> "image/png", buffer |-> <<137, 80>>],
      [ext |-> <<".", "J", " ", "g">>, mimetype |-> "image/jpeg", buffer |-> <<255>>] }

FileLists ==
    IF scope # "images" THEN { <<>> }
    ELSE UNION { [1..n -> FileSet] : n \in 0..MaxFiles }

NoAuth == [sid |-> 0, cookie |-> UNDEF, header |-> UNDEF, query |-> UNDEF]

Credentials ==
    CASE variant = "json" -> { [NoAuth EXCEPT !.sid = s] : s \in 0..MaxSessions }
      [] variant = "cookie" -> { NoAuth, [NoAuth EXCEPT !.cookie = "true"] }
      [] variant = "header" -> { NoAuth, [NoAuth EXCEPT !.header = ADMIN_PASS],
                                 [NoAuth EXCEPT !.header = "wrong"],
                                 [NoAuth EXCEPT !.query = ADMIN_PASS] }
      [] OTHER -> { NoAuth }

ListingIds == 1..(MaxListings + 1)
ImageIds == 1..(MaxImages + 1)

\* remove_images as JSON.parse reads it: absent, text that is no JSON array,
\* an array of integers, an array holding a non-integer
RemoveInputs ==
    IF scope # "images" THEN { [kind |-> "absent", ids |-> {}] } ELSE
    { [kind |-> "absent", ids |-> {}], [kind |-> "invalid", ids |-> {}],
      [kind |-> "badarray", ids |-> {}], [kind |-> "array", ids |-> 1..MaxImages] }
    \cup { [kind |-> "array", ids |-> {i}] : i \in 1..MaxImages }

NoRemove == [kind |-> "absent", ids |-> {}]

\* the statements of a handler with k statements that a storage failure may hit
Faults(k) == IF scope # "images" THEN {0} ELSE 0..k

\* ------------------------------------------------------- handler results
\* What a handler leaves behind: the store, the response status (0: no
\* response was sent), the listing id in the response (0: none), and the
\* statement at which a storage failure was thrown (0: none).
Result(l, im, dir, lseq, iseq, status, id, threw) ==
    [listings |-> l, images |-> im, uploadDir |-> dir, listingSeq |-> lseq,
     imageSeq |-> iseq, status |-> status, id |-> id, threw |-> threw]

\* the store as it is, with a response
Respond(status, threw) ==
    Result(listings, images, uploadDir, listingSeq, imageSeq, status, 0, threw)

HasListing(id) == \E i \in DOMAIN listings : listings[i].id = id

RemoveListing(l, id) == SelectSeq(l, LAMBDA r : r.id # id)

\* ------------------------------------------- cookie and nologin variants
requireAdmin_cookie(auth) == auth.cookie = "true"

\* the parameter array of INSERT INTO listings / UPDATE listings
ListingParams(b) ==
    [title |-> PgParam(b.title), city |-> PgParam(b.city),
     district |-> Or(b.district, NULL), street |-> Or(b.street, NULL),
     price |-> Number(b.price), rooms |-> Number(b.rooms),
     area |-> Number(b.area), type |-> PgParam(b.type),
     floor |-> IF Truthy(b.floor) THEN Number(b.floor) ELSE NULL,
     balcony |-> b.balcony = "true", terrace |-> b.terrace = "true",
     garden |-> b.garden = "true", description |-> Or(b.description, NULL)]

\* INTEGER columns: price, rooms, area, floor
BindOk(p) == IntOk(p.price) /\ IntOk(p.rooms) /\ IntOk(p.area) /\ IntOk(p.floor)

\* title, city, type TEXT NOT NULL (price, rooms, area are never NULL here)
NotNullOk(p) == p.title # NULL /\ p.city # NULL /\ p.type # NULL

\* mutant of nextval: the id is computed from the rows that are stored now
nextval_FromRowCount(seq) == Len(listings) + 1

\* id SERIAL: the sequence hands out the value after its last one
nextval(seq) == seq + 1

\* id SERIAL PRIMARY KEY, created_at TIMESTAMP DEFAULT NOW()
ListingRow(id, p) == [id |-> id, created_at |-> clock] @@ p

\* INSERT INTO images (listing_id, mime, data) for the first n files
ImageRows(lid, files, n) ==
    { [id |-> nextval(imageSeq + i - 1), listing_id |-> lid,
       mime |-> files[i].mimetype, data |-> files[i].buffer] : i \in 1..n }

\* POST /api/listings after the gate. fail: the statement a storage failure
\* hits (0: none; 1: the listing insert; 1+i: the i-th image insert;
\* n+2: the closing SELECT of the cookie variant).
DbCreate(b, files, fail, withSelect) ==
    LET p == ListingParams(b)
        n == Len(files)
        id == nextval(listingSeq)
        \* nextval() is drawn before the NOT NULL check rejects the row
        seq1 == IF fail # 1 /\ BindOk(p) THEN id ELSE listingSeq
        failed == fail \in 2..(n + 1) \/ (withSelect /\ fail = n + 2)
        inserted == IF fail \in 2..(n + 1) THEN fail - 2 ELSE n
        rows == ImageRows(id, files, inserted)
    IN  IF fail = 1 \/ ~BindOk(p) \/ ~NotNullOk(p)
        THEN Result(listings, images, uploadDir, seq1, imageSeq, 400, 0, IF fail = 1 THEN 1 ELSE 0)
        ELSE Result(Append(listings, ListingRow(id, p)), images \cup rows,
                    uploadDir, id, imageSeq + inserted, IF failed THEN 400 ELSE 201,
                    IF failed THEN 0 ELSE id, IF failed THEN fail ELSE 0)

\* mutant of RemoveOwnedImages: the DELETE lacks listing_id=$1
RemoveOwnedImages_AnyOwner(im, id, ids) == { r \in im : r.id \notin ids }

\* DELETE FROM images WHERE listing_id=$1 AND id = ANY($2::int[])
RemoveOwnedImages(im, id, ids) ==
    { r \in im : ~(r.listing_id = id /\ r.id \in ids) }

\* if (remove_images) { arr = JSON.parse(...); if (Array.isArray(arr) && arr.length) ...
RemoveRuns(remove) ==
    remove.kind = "badarray" \/ (remove.kind = "array" /\ remove.ids # {})

\* PUT /api/listings/:id after the gate. fail: 1 the UPDATE, 2 the DELETE of
\* remove_images, 2+i the i-th image insert, n+3 the closing SELECT.
DbUpdate(id, b, remove, files, fail, withSelect) ==
    LET p == ListingParams(b)
        n == Len(files)
        exists == HasListing(id)
        l1 == [i \in DOMAIN listings |->
                 IF listings[i].id = id
                 THEN [id |-> id, created_at |-> listings[i].created_at] @@ p
                 ELSE listings[i]]
        updateFails == fail = 1 \/ ~BindOk(p) \/ (exists /\ ~NotNullOk(p))
        \* a non-integer element fails the cast to int[]
        removeFails == RemoveRuns(remove) /\ (fail = 2 \/ remove.kind = "badarray")
        im2 == IF RemoveRuns(remove) THEN RemoveOwnedImages(images, id, remove.ids)
               ELSE images
        \* listing_id REFERENCES listings(id): the first insert fails, its id is drawn
        fkFails == n > 0 /\ ~exists
        storageFails == ~fkFails /\ (fail \in 3..(n + 2) \/ (withSelect /\ fail = n + 3))
        inserted == IF fkFails THEN 0
                    ELSE IF fail \in 3..(n + 2) THEN fail - 3 ELSE n
        rows == ImageRows(id, files, inserted)
        seq3 == imageSeq + inserted + (IF fkFails THEN 1 ELSE 0)
    IN  IF updateFails THEN Respond(400, IF fail = 1 THEN 1 ELSE 0)
        ELSE IF removeFails
        THEN Result(l1, images, uploadDir, listingSeq, imageSeq, 400, 0, IF fail = 2 THEN 2 ELSE 0)
        ELSE Result(l1, im2 \cup rows, uploadDir, listingSeq, seq3,
                    IF fkFails \/ storageFails THEN 400 ELSE 200,
                    IF fkFails \/ storageFails \/ ~exists THEN 0 ELSE id,
                    IF storageFails THEN fail ELSE 0)

\* DELETE FROM listings WHERE id=$1; images.listing_id ... ON DELETE CASCADE.
\* The handler has no try/catch: a failing query sends no response.
DbDelete(id, fail) ==
    LET im == { r \in images : r.listing_id # id }
    IN  IF fail = 1 THEN Respond(0, 1)
        ELSE Result(RemoveListing(listings, id), im, uploadDir, listingSeq,
                    imageSeq, 200, 0, 0)

postListings_cookie(auth, b, files, fail) ==
    IF ~requireAdmin_cookie(auth) THEN Respond(403, 0)
    ELSE DbCreate(b, files, fail, TRUE)

putListing_cookie(auth, id, b, remove, files, fail) ==
    IF ~requireAdmin_cookie(auth) THEN Respond(403, 0)
    ELSE DbUpdate(id, b, remove, files, fail, TRUE)

deleteListing_cookie(auth, id, fail) ==
    IF ~requireAdmin_cookie(auth) THEN Respond(403, 0)
    ELSE DbDelete(id, fail)

postListings_nologin(auth, b, files, fail) == DbCreate(b, files, fail, FALSE)

putListing_nologin(auth, id, b, remove, files, fail) ==
    DbUpdate(id, b, remove, files, fail, FALSE)

deleteListing_nologin(auth, id, fail) == DbDelete(id, fail)

\* -------------------------------------------------------- header variant
\* pass = headers['x-admin-pass'] || body?.adminPass || query?.adminPass; the
\* gate runs before multer and without a JSON body, so body.adminPass is undefined
requireAdmin_header(auth) == Or(auth.header, Or(UNDEF, auth.query)) = ADMIN_PASS

OnValues == {"true", "on", "1"}

\* the data object of the create handler; image_id 0 stands for SQL NULL
ListingData(b, imageId) ==
    [title |-> Or(b.title, ""), description |-> Or(b.description, ""),
     city |-> Or(b.city, ""), district |-> Or(b.district, ""),
     street |-> Or(b.street, ""), type |-> Or(b.type, "Mieszkanie"),
     price |-> IF Truthy(b.price) THEN Number(b.price) ELSE NULL,
     rooms |-> IF Truthy(b.rooms) THEN Number(b.rooms) ELSE NULL,
     area |-> IF Truthy(b.area) THEN Number(b.area) ELSE NULL,
     floor |-> IF Truthy(b.floor) THEN Number(b.floor) ELSE NULL,
     balcony |-> b.balcony \in OnValues, terrace |-> b.terrace \in OnValues,
     garden |-> b.garden \in OnValues,
     image_url |-> Or(b.imageUrl, NULL), image_id |-> imageId]

\* rooms INT, floor INT must parse; price, area NUMERIC take NaN
BindOk_header(d) == IntOk(d.rooms) /\ IntOk(d.floor)

\* POST /api/listings. fail: 1 the image insert, 2 the listing insert.
\* upload.single: a second file part is a MulterError, answered 500 by express.
postListings_header(auth, b, files, fail) ==
    LET hasFile == Len(files) > 0 /\ Len(files[1].buffer) > 0
        imageId == IF hasFile THEN nextval(imageSeq) ELSE 0
        row == [id |-> imageId, filename |-> files[1].ext,
                mimetype |-> files[1].mimetype, data |-> files[1].buffer]
        im1 == IF hasFile THEN images \cup {row} ELSE images
        iseq1 == IF hasFile THEN imageId ELSE imageSeq
        d == ListingData(b, imageId)
        id == nextval(listingSeq)
    IN  IF ~requireAdmin_header(auth) THEN Respond(401, 0)
        ELSE IF Len(files) > 1 THEN Respond(500, 0)
        ELSE IF hasFile /\ fail = 1 THEN Respond(500, 1)
        ELSE IF fail = 2 \/ ~BindOk_header(d)
        THEN Result(listings, im1, uploadDir, listingSeq, iseq1, 500, 0, IF fail = 2 THEN 2 ELSE 0)
        ELSE Result(Append(listings, [id |-> id, created_at |-> clock] @@ d),
                    im1, uploadDir, id, iseq1, 201, id, 0)

\* DELETE /api/listings/:id. fail: 1 the SELECT, 2 DELETE FROM listings,
\* 3 DELETE FROM images.
deleteListing_header(auth, id, fail) ==
    LET imgId == (CHOOSE r \in { listings[i] : i \in DOMAIN listings } : r.id = id).image_id
        l2 == RemoveListing(listings, id)
    IN  IF ~requireAdmin_header(auth) THEN Respond(401, 0)
        ELSE IF fail = 1 THEN Respond(500, 1)
        ELSE IF ~HasListing(id) THEN Respond(404, 0)
        ELSE IF fail = 2 THEN Respond(500, 2)
        ELSE IF imgId # 0 /\ fail = 3
        THEN Result(l2, images, uploadDir, listingSeq, imageSeq, 500, 0, 3)
        ELSE Result(l2, { r \in images : r.id # imgId }, uploadDir, listingSeq,
                    imageSeq, 200, 0, 0)

\* ---------------------------------------------------------- json variant
\* Names and URLs are sequences of characters; a clock reading or a uuid is
\* one element standing for its digits (all unreserved characters).
toLowerCase(s) ==
    [i \in DOMAIN s |-> CASE s[i] = "J" -> "j" [] s[i] = "P" -> "p"
                          [] s[i] = "N" -> "n" [] s[i] = "G" -> "g"
                          [] OTHER -> s[i]]

\* encodeURIComponent escapes every character outside A-Z a-z 0-9 - _ . ! ~ * ' ( )
EncodeChar(c) ==
    CASE c = " " -> <<"%", "2", "0">>
      [] c = "%" -> <<"%", "2", "5">>
      [] c = "/" -> <<"%", "2", "F">>
      [] OTHER -> <<c>>

RECURSIVE encodeURIComponent(_)
encodeURIComponent(s) ==
    IF s = <<>> THEN <<>> ELSE EncodeChar(Head(s)) \o encodeURIComponent(Tail(s))

DecodeEscape(a, b) ==
    CASE a = "2" /\ b = "0" -> <<" ">>
      [] a = "2" /\ b = "5" -> <<"%">>
      [] a = "2" /\ b = "F" -> <<"/">>
      [] OTHER -> <<"%", a, b>>

RECURSIVE decodeURIComponent(_)
decodeURIComponent(s) ==
    IF s = <<>> THEN <<>>
    ELSE IF Head(s) = "%" /\ Len(s) >= 3
    THEN DecodeEscape(s[2], s[3]) \o decodeURIComponent(SubSeq(s, 4, Len(s)))
    ELSE <<Head(s)>> \o decodeURIComponent(Tail(s))

\* path.basename: what follows the last "/"
basename(s) ==
    LET slashes == { i \in DOMAIN s : s[i] = "/" }
    IN  IF slashes = {} THEN s
        ELSE SubSeq(s, (CHOOSE i \in slashes : \A j \in slashes : j <= i) + 1, Len(s))

\* a version-4 uuid is taken to differ from every uuid drawn before
uuidv4(drawn) == drawn + 1

\* multer.diskStorage filename: `${Date.now()}-${uuidv4()}${ext}`
StoredName(file, i) ==
    <<ToString(clock), "-", ToString(uuidv4(imageSeq + i - 1))>> \o toLowerCase(file.ext)

\* `/uploads/${encodeURIComponent(path.basename(f.filename))}`
ImageUrl(name) == <<"/", "uploads", "/">> \o encodeURIComponent(basename(name))

\* app.use('/uploads', express.static(UPLOAD_DIR)): the path after the mount
\* point is URL-decoded and looked up in the directory
getUpload(url) ==
    IF decodeURIComponent(SubSeq(url, 4, Len(url))) \in uploadDir THEN 200 ELSE 404

\* JSON.stringify writes NaN as null
JsonValue(row) == [row EXCEPT !.floor = IF @ = NaN THEN NULL ELSE @]

\* readListings: the parsed file, [] when reading or parsing throws
readListings(throws) == IF throws THEN <<>> ELSE listings

writeListings(list) == [i \in DOMAIN list |-> JsonValue(list[i])]

\* mutant of unshift: the new element replaces what was read
unshift_Replace(list, x) == <<x>>

\* list.unshift(x): x becomes the first element
unshift(list, x) == <<x>> \o list

\* Number(x) || 0
NumberOr0(v) == IF Number(v) = NaN THEN "0" ELSE Number(v)

newListing(b, names) ==
    [id |-> uuidv4(listingSeq), title |-> Or(b.title, ""), city |-> Or(b.city, ""),
     type |-> Or(b.type, ""), area |-> NumberOr0(b.area),
     rooms |-> NumberOr0(b.rooms), price |-> NumberOr0(b.price),
     floor |-> IF Truthy(b.floor) THEN Number(b.floor) ELSE NULL,
     terrace |-> b.terrace \in OnValues, garden |-> b.garden \in OnValues,
     description |-> Or(b.description, ""),
     images |-> [i \in DOMAIN names |-> ImageUrl(names[i])],
     createdAt |-> clock]

\* POST /api/listings: upload.array stores the files, then the session check.
\* fail: 1 readListings throws inside and yields [], 2 writeListings throws.
postListings_json(auth, b, files, fail) ==
    LET names == [i \in DOMAIN files |-> StoredName(files[i], i)]
        dir == uploadDir \cup { names[i] : i \in DOMAIN names }
        iseq == imageSeq + Len(files)
        new == newListing(b, names)
        list == unshift(readListings(fail = 1), new)
    IN  IF auth.sid \notin sessions
        THEN Result(listings, images, dir, listingSeq, iseq, 403, 0, 0)
        ELSE IF fail = 2
        THEN Result(listings, images, dir, new.id, iseq, 500, 0, 2)
        ELSE Result(writeListings(list), images, dir, new.id, iseq, 200, new.id, IF fail = 1 THEN 1 ELSE 0)

\* DELETE /api/listings/:id. fail: 1 readListings yields [], 2 writeListings
\* throws (express answers 500) after the files were unlinked.
deleteListing_json(auth, id, fail) ==
    LET list == readListings(fail = 1)
        found == { i \in DOMAIN list : list[i].id = id }
        idx == CHOOSE i \in found : \A j \in found : i <= j
        removed == list[idx]
        rest == SubSeq(list, 1, idx - 1) \o SubSeq(list, idx + 1, Len(list))
        gone == { basename(removed.images[k]) : k \in DOMAIN removed.images }
    IN  IF auth.sid \notin sessions THEN Respond(403, 0)
        ELSE IF found = {} THEN Respond(404, IF fail = 1 THEN 1 ELSE 0)
        ELSE IF fail = 2
        THEN Result(listings, images, uploadDir \ gone, listingSeq, imageSeq,
                    500, 0, 2)
        ELSE Result(writeListings(rest), images, uploadDir \ gone, listingSeq,
                    imageSeq, 200, 0, 0)

\* ---------------------------------------------------------------- reads
\* mutant of getImage: the stored type is not sent, the fallback is
getImage_FallbackType(id) ==
    LET rows == { r \in images : r.id = id }
    IN  IF rows = {} THEN [status |-> 404, type |-> "", body |-> <<>>]
        ELSE [status |-> 200, type |-> "application/octet-stream",
              body |-> (CHOOSE r \in rows : TRUE).data]

\* GET /api/images/:id of the database variants: status, Content-Type, body
getImage(id) ==
    LET rows == { r \in images : r.id = id }
        row == CHOOSE r \in rows : TRUE
    IN  IF rows = {} THEN [status |-> 404, type |-> "", body |-> <<>>]
        ELSE IF variant = "header"
        THEN [status |-> 200, type |-> Or(row.mimetype, "application/octet-stream"),
              body |-> row.data]
        ELSE [status |-> 200, type |-> row.mime, body |-> row.data]

\* mutant of OrderByCreatedAtDesc: ORDER BY created_at (ascending)
OrderByCreatedAtDesc_Asc(s) ==
    \A i, j \in DOMAIN s : i < j => s[i].created_at <= s[j].created_at

\* ORDER BY created_at DESC
OrderByCreatedAtDesc(s) ==
    \A i, j \in DOMAIN s : i < j => s[i].created_at >= s[j].created_at

Orderings(l) ==
    { [i \in DOMAIN l |-> l[p[i]]] :
        p \in { f \in [DOMAIN l -> DOMAIN l] : \A i, j \in DOMAIN l : f[i] = f[j] => i = j } }

\* GET /api/listings: the arrays the server may answer with. The json variant
\* sends the file as it is; SQL leaves the order of equal created_at open.
getListings ==
    IF variant = "json" THEN { readListings(FALSE) }
    ELSE { s \in Orderings(listings) : OrderByCreatedAtDesc(s) }

\* ------------------------------------------------------------- the machine
\* does the request carry a credential its variant's gate accepts: a logged-in
\* session, the admin_auth cookie, the admin secret
CarriesCredential(auth) ==
    \/ auth.sid \in sessions
    \/ auth.cookie = "true"
    \/ ADMIN_PASS \in {auth.header, auth.query}

NoRequest ==
    [op |-> "none", cred |-> FALSE, sid |-> 0, id |-> 0, body |-> EmptyBody,
     nfiles |-> 0, foreign |-> FALSE, threw |-> 0, status |-> 0, rid |-> 0]

\* ------------------------------------- json variant, /api/facebook-reviews
MaxFbRequests == 3
MaxFbHours == 1

\* let FB_CACHE = { data: null, ts: 0 }
FB_CACHE == [null |-> TRUE, data |-> <<>>, ts |-> 0]

FB_CACHE_TTL == 60 * 60 * 1000

\* the keys normalizeWebhookItem reads
FbKeys == {"author_name", "name", "reviewer", "user", "rating", "stars",
           "recommendation_type", "text", "review_text", "recommendation_text",
           "comment", "time", "created_time", "date", "profile_pic", "photo",
           "permalink", "url"}

NoItem == [k \in FbKeys |-> UNDEF]

\* what the webhook may answer with status ok: arrays of review objects, an
\* array holding null, and a body that is no JSON array
FbPayloads ==
    { <<[NoItem EXCEPT !.author_name = "Ann", !.rating = "2", !.text = "good",
                       !.time = "1700000000", !.profile_pic = "p.jpg",
                       !.permalink = "http://x"]>>,
      <<[NoItem EXCEPT !.name = "Bob", !.recommendation_type = "negative",
                       !.comment = "bad", !.created_time = "soon"]>>,
      <<NoItem, NoItem>> }

\* Number(time) where it exceeds 1000000000, else 0 (NaN and small numbers
\* fail the comparison alike)
EpochSeconds(v) == IF v = "1700000000" THEN 1700000000 ELSE 0

\* Date.parse(time) of the values used here: text that is no date gives NaN (0)
DateParse(v) == 0

normalizeWebhookItem(src, now) ==
    LET rt == src.recommendation_type
        time == Or(src.time, Or(src.created_time, Or(src.date, "0")))
        tnum == IF EpochSeconds(time) > 1000000000 THEN EpochSeconds(time)
                ELSE IF DateParse(time) # 0 THEN DateParse(time) \div 1000
                ELSE now \div 1000
    IN  [author_name |-> Or(src.author_name, Or(src.name, Or(src.reviewer, Or(src.user, "")))),
         rating |-> NumberOr0(Or(src.rating, Or(src.stars,
                       IF rt = "positive" THEN "5"
                       ELSE IF rt = "negative" THEN "1" ELSE "5"))),
         text |-> Or(src.text, Or(src.review_text,
                     Or(src.recommendation_text, Or(src.comment, "")))),
         time |-> tnum,
         \* reviewer is text here, so reviewer.picture is undefined
         profile_pic |-> Or(src.profile_pic, Or(src.photo, NULL)),
         permalink |-> Or(src.permalink, Or(src.url, NULL))]

\* what the upstream fetch of one request comes to
FbOutcomes ==
    { [kind |-> "ok_array", json |-> p] : p \in FbPayloads }
    \cup { [kind |-> k, json |-> <<>>] : k \in {"ok_other", "ok_null_item", "not_ok", "throws"} }

NoFbRequest ==
    [pc |-> "new", now |-> 0, fetched |-> FALSE, outcome |-> "none", res |-> <<>>]

\* mutant of CacheFresh: the timestamp is not looked at
CacheFresh_NoExpiry(cache, now) == ~cache.null

\* FB_CACHE.data && (now - FB_CACHE.ts < FB_CACHE_TTL); an array is truthy
CacheFresh(cache, now) == ~cache.null /\ now - cache.ts < FB_CACHE_TTL

\* mutant of AfterFetch: a failed fetch stores the empty answer
AfterFetch_StoresFailure(cache, now, out) ==
    [cache |-> [null |-> FALSE, data |-> <<>>, ts |-> now], res |-> <<>>,
     stored |-> out.kind \in {"ok_array", "ok_other"}]

\* the handler after `await fetch`: the cache it leaves and the array it answers
AfterFetch(cache, now, out) ==
    LET items == IF out.kind = "ok_array"
                 THEN [i \in DOMAIN out.json |-> normalizeWebhookItem(out.json[i], clock)]
                 ELSE <<>>
    IN  CASE out.kind \in {"not_ok", "throws"} ->
               [cache |-> cache, res |-> <<>>, stored |-> FALSE]
          \* json.map(normalizeWebhookItem) throws on a null element: catch
          [] out.kind = "ok_null_item" ->
               [cache |-> cache, res |-> <<>>, stored |-> FALSE]
          [] OTHER ->
               [cache |-> [null |-> FALSE, data |-> items, ts |-> now],
                res |-> items, stored |-> TRUE]

\* history of concurrent requests: ids of the creates and of the deletes that
\* were answered with success, did a read of the file fail, did a handler run
\* while another request was in flight
NoRaces == [acked |-> {}, deleted |-> {}, readFailed |-> FALSE, overlap |-> FALSE]

Init ==
    /\ variant \in Variants
    /\ scope \in Scopes
    /\ listings = <<>>
    /\ images = {}
    /\ uploadDir = {}
    /\ listingSeq = 0
    /\ imageSeq = 0
    /\ clock = 0
    /\ sessions = {}
    /\ last = NoRequest
    /\ created = <<>>
    /\ uploaded = {}
    /\ deletedImages = {}
    /\ sessionLog = [s \in 1..MaxSessions |-> "none"]
    /\ inflight = {}
    /\ raceLog = NoRaces
    /\ fbCache = FB_CACHE
    /\ fbReqs = [i \in 1..MaxFbRequests |-> NoFbRequest]
    /\ fbLog = [stored |-> {}, stampede |-> FALSE]

Ids(rows) == { r.id : r \in rows }

\* history: the rows a handler added to the listings, with the time of the request
NewListings(l) ==
    LET new == SelectSeq(l, LAMBDA r : ~HasListing(r.id))
    IN  [i \in DOMAIN new |-> [id |-> new[i].id, at |-> clock]]

\* history: the file parts behind the image rows a handler added; the i-th
\* new id (ascending) is the i-th file part of the request
NewUploads(im, files) ==
    LET new == Ids(im) \ Ids(images)
    IN  { [id |-> n, mimetype |-> files[Cardinality({ x \in new : x <= n })].mimetype,
           buffer |-> files[Cardinality({ x \in new : x <= n })].buffer] : n \in new }

\* remove_images names an image that another listing owns
NamesForeignImage(id, remove) ==
    \E r \in images : r.id \in remove.ids /\ r.listing_id # id

\* A handler's result becomes the next state. `last` keeps the body and the
\* number of files of a request only when the gate let it through.
Apply(op, r, auth, id, b, files, remove) ==
    /\ listings' = r.listings
    /\ images' = r.images
    /\ uploadDir' = r.uploadDir
    /\ listingSeq' = r.listingSeq
    /\ imageSeq' = r.imageSeq
    /\ created' = created \o NewListings(r.listings)
    /\ uploaded' = uploaded \cup NewUploads(r.images, files)
    /\ deletedImages' = deletedImages \cup (Ids(images) \ Ids(r.images))
    /\ last' = [op |-> op, cred |-> CarriesCredential(auth), sid |-> auth.sid,
                id |-> id,
                body |-> IF r.status \in {401, 403} THEN EmptyBody ELSE b,
                nfiles |-> IF r.status \in {401, 403} THEN 0 ELSE Len(files),
                foreign |-> r.status \notin {401, 403} /\ NamesForeignImage(id, remove),
                threw |-> r.threw, status |-> r.status, rid |-> r.id]
    /\ UNCHANGED <<variant, scope, clock, sessions, sessionLog, inflight, raceLog,
          fbCache, fbReqs, fbLog>>

\* POST /api/listings
Create ==
    \E auth \in Credentials, b \in Bodies, files \in FileLists :
      \E fail \in Faults(Len(files) + 2) :
        /\ listingSeq < MaxListings
        /\ imageSeq + Len(files) <= MaxImages
        /\ Apply("create",
                 CASE variant = "json" -> postListings_json(auth, b, files, fail)
                   [] variant = "nologin" -> postListings_nologin(auth, b, files, fail)
                   [] variant = "cookie" -> postListings_cookie(auth, b, files, fail)
                   [] OTHER -> postListings_header(auth, b, files, fail),
                 auth, 0, b, files, NoRemove)

\* PUT /api/listings/:id (cookie and nologin variants only)
Update ==
    \E auth \in Credentials, id \in ListingIds, b \in Bodies,
       remove \in RemoveInputs, files \in FileLists :
      \E fail \in Faults(Len(files) + 3) :
        /\ variant \in {"cookie", "nologin"}
        /\ imageSeq + Len(files) <= MaxImages
        /\ Apply("update",
                 IF variant = "cookie"
                 THEN putListing_cookie(auth, id, b, remove, files, fail)
                 ELSE putListing_nologin(auth, id, b, remove, files, fail),
                 auth, id, b, files, remove)

\* DELETE /api/listings/:id
Delete ==
    \E auth \in Credentials, id \in ListingIds, fail \in Faults(3) :
        Apply("delete",
              CASE variant = "json" -> deleteListing_json(auth, id, fail)
                [] variant = "nologin" -> deleteListing_nologin(auth, id, fail)
                [] variant = "cookie" -> deleteListing_cookie(auth, id, fail)
                [] OTHER -> deleteListing_header(auth, id, fail),
              auth, id, EmptyBody, <<>>, NoRemove)

\* POST /api/login of the json variant: req.session.auth = true
Login ==
    \E sid \in 1..MaxSessions, password \in {ADMIN_PASSWORD_json, "wrong"} :
        /\ variant = "json"
        /\ sessions' = IF password = ADMIN_PASSWORD_json
                       THEN sessions \cup {sid} ELSE sessions
        /\ last' = [NoRequest EXCEPT !.op = "login", !.id = sid,
                      !.status = IF password = ADMIN_PASSWORD_json THEN 200 ELSE 401]
        /\ sessionLog' = IF password = ADMIN_PASSWORD_json
                         THEN [sessionLog EXCEPT ![sid] = "login"] ELSE sessionLog
        /\ UNCHANGED <<variant, scope, listings, images, uploadDir, listingSeq,
                       imageSeq, clock, created, uploaded, deletedImages,
                       inflight, raceLog,
          fbCache, fbReqs, fbLog>>

\* mutant of Logout: the session is answered but not destroyed
Logout_KeepsSession ==
    \E sid \in 1..MaxSessions :
        /\ variant = "json"
        /\ sessions' = sessions
        /\ last' = [NoRequest EXCEPT !.op = "logout", !.id = sid, !.status = 200]
        /\ sessionLog' = [sessionLog EXCEPT ![sid] = "logout"]
        /\ UNCHANGED <<variant, scope, listings, images, uploadDir, listingSeq,
                       imageSeq, clock, created, uploaded, deletedImages,
                       inflight, raceLog,
          fbCache, fbReqs, fbLog>>

\* POST /api/logout of the json variant: req.session.destroy
Logout ==
    \E sid \in 1..MaxSessions :
        /\ variant = "json"
        /\ sessions' = sessions \ {sid}
        /\ last' = [NoRequest EXCEPT !.op = "logout", !.id = sid, !.status = 200]
        /\ sessionLog' = [sessionLog EXCEPT ![sid] = "logout"]
        /\ UNCHANGED <<variant, scope, listings, images, uploadDir, listingSeq,
                       imageSeq, clock, created, uploaded, deletedImages,
                       inflight, raceLog,
          fbCache, fbReqs, fbLog>>

\* time passes between requests
Tick ==
    /\ scope = "clock"
    /\ clock < MaxClock
    /\ clock' = clock + 1
    /\ last' = NoRequest
    /\ UNCHANGED <<variant, scope, listings, images, uploadDir, listingSeq,
                   imageSeq, sessions, created, uploaded, deletedImages, sessionLog,
                   inflight, raceLog,
          fbCache, fbReqs, fbLog>>

Next == Create \/ Update \/ Delete \/ Login \/ Logout \/ Tick

Spec == Init /\ [][Next]_vars

\* --------------------------------------- json variant, requests in flight
\* A request is received, passes the asynchronous middleware (session load,
\* multipart parsing) and then its handler callback runs. The callback is
\* synchronous code: readFileSync, the change, writeFileSync run in one turn
\* of the event loop, so the callback is one step.
MaxInflight == 2

\* what the callback of POST /api/listings does to a file holding `list`
postHandler_json(list, seq, sid, b, throws) ==
    LET new == [newListing(b, <<>>) EXCEPT !.id = uuidv4(seq)]
        read == IF throws THEN <<>> ELSE list
    IN  IF sid \notin sessions
        THEN [listings |-> list, listingSeq |-> seq, status |-> 403, id |-> 0]
        ELSE [listings |-> writeListings(unshift(read, new)), listingSeq |-> new.id,
              status |-> 200, id |-> new.id]

\* what the callback of DELETE /api/listings/:id does to a file holding `list`
deleteHandler_json(list, seq, sid, id, throws) ==
    LET read == IF throws THEN <<>> ELSE list
        found == { i \in DOMAIN read : read[i].id = id }
        idx == CHOOSE i \in found : \A j \in found : i <= j
        rest == SubSeq(read, 1, idx - 1) \o SubSeq(read, idx + 1, Len(read))
    IN  IF sid \notin sessions
        THEN [listings |-> list, listingSeq |-> seq, status |-> 403, id |-> 0]
        ELSE IF found = {}
        THEN [listings |-> list, listingSeq |-> seq, status |-> 404, id |-> 0]
        ELSE [listings |-> writeListings(rest), listingSeq |-> seq, status |-> 200,
              id |-> id]

\* the file, the uuids drawn and the history after the callback of request r
\* ran on st
HandleOn(st, r, throws) ==
    LET res == IF r.op = "create"
               THEN postHandler_json(st.listings, st.listingSeq, r.sid, r.body, throws)
               ELSE deleteHandler_json(st.listings, st.listingSeq, r.sid, r.id, throws)
        ok == res.status = 200
    IN  [listings |-> res.listings, listingSeq |-> res.listingSeq,
         status |-> res.status, id |-> res.id,
         acked |-> IF ok /\ r.op = "create" THEN st.acked \cup {res.id} ELSE st.acked,
         deleted |-> IF ok /\ r.op = "delete" THEN st.deleted \cup {res.id}
                     ELSE st.deleted]

RaceState ==
    [listings |-> listings, listingSeq |-> listingSeq, status |-> 0, id |-> 0,
     acked |-> raceLog.acked, deleted |-> raceLog.deleted]

\* the callbacks of the requests of `order` run one after the other
RECURSIVE RunOrder(_, _)
RunOrder(st, order) ==
    IF order = <<>> THEN st
    ELSE RunOrder(HandleOn(st, Head(order), FALSE), Tail(order))

\* the orders in which the callbacks of the requests in flight may run
Schedules ==
    { o \in [1..Cardinality(inflight) -> inflight] :
        \A i, j \in DOMAIN o : o[i] = o[j] => i = j }

RaceInit ==
    /\ Init
    /\ variant = "json"
    /\ scope = "clock"

\* a create or a delete is received and waits for its callback
RaceArrive ==
    \E slot \in 1..MaxInflight, op \in {"create", "delete"}, auth \in Credentials,
       id \in ListingIds, b \in Bodies :
        /\ \A r \in inflight : r.slot # slot
        /\ op = "create" =>
              /\ id = 1
              /\ listingSeq + Cardinality({ r \in inflight : r.op = "create" }) < MaxListings
        /\ inflight' = inflight \cup
              { [slot |-> slot, op |-> op, sid |-> auth.sid,
                 id |-> IF op = "create" THEN 0 ELSE id,
                 body |-> IF op = "create" THEN b ELSE EmptyBody] }
        /\ last' = [NoRequest EXCEPT !.op = "arrive", !.sid = auth.sid]
        /\ UNCHANGED <<variant, scope, listings, images, uploadDir, listingSeq,
                       imageSeq, clock, sessions, created, uploaded, deletedImages,
                       sessionLog, raceLog, fbCache, fbReqs, fbLog>>

\* the callback of a request in flight runs to its response
RaceHandle ==
    \E r \in inflight, throws \in BOOLEAN :
        LET st == HandleOn(RaceState, r, throws)
        IN  /\ listings' = st.listings
            /\ listingSeq' = st.listingSeq
            /\ inflight' = inflight \ {r}
            /\ raceLog' = [acked |-> st.acked, deleted |-> st.deleted,
                           readFailed |-> raceLog.readFailed \/ (throws /\ st.status # 403),
                           overlap |-> raceLog.overlap \/ inflight # {r}]
            /\ last' = [NoRequest EXCEPT !.op = r.op, !.sid = r.sid, !.id = r.id,
                          !.cred = r.sid \in sessions, !.body = r.body,
                          !.status = st.status, !.rid = st.id]
            /\ UNCHANGED <<variant, scope, images, uploadDir, imageSeq, clock,
                           sessions, created, uploaded, deletedImages, sessionLog,
                           fbCache, fbReqs, fbLog>>

RaceNext == Login \/ RaceArrive \/ RaceHandle

SpecRace == RaceInit /\ [][RaceNext]_vars

\* ------------------------- json variant, requests of /api/facebook-reviews
FbInit ==
    /\ Init
    /\ variant = "json"
    /\ scope = "clock"

\* a request reaches the handler: now = Date.now(), the cache test, and either
\* the cached answer or the start of the upstream fetch
FbStart ==
    \E i \in 1..MaxFbRequests :
        /\ fbReqs[i].pc = "new"
        \* requests are numbered in the order they reach the handler
        /\ \A j \in 1..(i - 1) : fbReqs[j].pc # "new"
        /\ fbReqs' = [fbReqs EXCEPT ![i] =
              IF CacheFresh(fbCache, clock)
              THEN [pc |-> "done", now |-> clock, fetched |-> FALSE,
                    outcome |-> "hit", res |-> fbCache.data]
              ELSE [pc |-> "fetching", now |-> clock, fetched |-> TRUE,
                    outcome |-> "none", res |-> <<>>]]
        /\ fbLog' = [fbLog EXCEPT !.stampede =
              @ \/ (~CacheFresh(fbCache, clock)
                     /\ \E j \in 1..MaxFbRequests : fbReqs[j].pc = "fetching")]
        /\ UNCHANGED <<variant, scope, listings, images, uploadDir, listingSeq,
                       imageSeq, clock, sessions, last, created, uploaded,
                       deletedImages, sessionLog, inflight, raceLog, fbCache>>

\* the upstream fetch of a request comes back and the handler runs to its end
FbFetchDone ==
    \E i \in 1..MaxFbRequests, out \in FbOutcomes :
        LET r == AfterFetch(fbCache, fbReqs[i].now, out)
        IN  /\ fbReqs[i].pc = "fetching"
            /\ fbCache' = r.cache
            /\ fbReqs' = [fbReqs EXCEPT ![i].pc = "done", ![i].outcome = out.kind,
                                        ![i].res = r.res]
            /\ fbLog' = [fbLog EXCEPT !.stored =
                  IF r.stored THEN @ \cup {fbReqs[i].now} ELSE @]
            /\ UNCHANGED <<variant, scope, listings, images, uploadDir, listingSeq,
                           imageSeq, clock, sessions, last, created, uploaded,
                           deletedImages, sessionLog, inflight, raceLog>>

\* the readings of Date.now() the requests are made at: a millisecond before,
\* at and a millisecond after every whole TTL since the start
FbTimes ==
    { t \in { h * FB_CACHE_TTL + e : h \in 0..MaxFbHours, e \in {-1, 0, 1} } : t >= 0 }

\* time passes
FbTick ==
    \E t \in FbTimes :
        /\ t > clock
        /\ clock' = t
        /\ UNCHANGED <<variant, scope, listings, images, uploadDir, listingSeq,
                       imageSeq, sessions, last, created, uploaded, deletedImages,
                       sessionLog, inflight, raceLog, fbCache, fbReqs, fbLog>>

FbNext == FbStart \/ FbFetchDone \/ FbTick

SpecFb == FbInit /\ [][FbNext]_vars

\* ================================================================ claims
Mutations == {"create", "update", "delete"}

Rejected == {401, 403}

RowOf(l, id) == CHOOSE r \in { l[i] : i \in DOMAIN l } : r.id = id

\* the images a listing owns, by what retrieves them: ids of image rows in the
\* database variants, URLs under /uploads in the json variant
OwnedImages(id) ==
    CASE variant = "json" ->
           { RowOf(listings, id).images[k] : k \in DOMAIN RowOf(listings, id).images }
      [] variant = "header" -> { RowOf(listings, id).image_id } \ {0}
      [] OTHER -> { r.id : r \in { x \in images : x.listing_id = id } }

\* C1: a create, update or delete without a valid admin credential is answered
\* 401 or 403 and leaves listings, image rows and the upload directory as they were.
C1_UnauthorizedLeavesStore ==
    [][ (last'.op \in Mutations /\ ~last'.cred) =>
          /\ last'.status \in Rejected
          /\ listings' = listings
          /\ images' = images
          /\ uploadDir' = uploadDir ]_vars

\* C2: after a DELETE of a listing that succeeded, or that failed between its
\* two statements, none of the images the listing owned can be fetched.
C2_DeleteRemovesOwnedImages ==
    [][ ( /\ last'.op = "delete"
          /\ HasListing(last'.id)
          /\ last'.status = 200 \/ (variant = "header" /\ last'.threw = 3) ) =>
          \A img \in OwnedImages(last'.id) :
             IF variant = "json" THEN getUpload(img)' = 404
             ELSE getImage(img)'.status = 404 ]_vars

ColumnFields == BodyFields \ {"imageUrl"}

\* C3: a PUT leaves every field that its body does not carry as it was stored.
C3_AbsentFieldsKept ==
    [][ (last'.op = "update" /\ HasListing(last'.id)) =>
          \A f \in ColumnFields :
             last'.body[f] = UNDEF =>
               RowOf(listings', last'.id)[f] = RowOf(listings, last'.id)[f] ]_vars

ImagesOf(im, id) == { r \in im : r.listing_id = id }

\* C4: a PUT, whatever its remove_images, leaves the images of every other
\* listing as they were.
C4_RemoveImagesIsolated ==
    [][ last'.op = "update" =>
          \A l \in ListingIds \ {last'.id} :
             ImagesOf(images', l) = ImagesOf(images, l) ]_vars

\* C4 witness: a PUT that named another listing's image was answered 200 and
\* that image is still stored.
C4_Witness ==
    /\ last.op = "update"
    /\ last.foreign
    /\ last.status = 200
    /\ \E r \in images : r.listing_id # last.id

\* C5: a DELETE that passes the gate for an id that is not stored is answered 404.
C5_DeleteAbsentIs404 ==
    [][ ( /\ last'.op = "delete"
          /\ last'.status \notin Rejected
          /\ last'.threw = 0
          /\ ~HasListing(last'.id) ) => last'.status = 404 ]_vars

\* C6: a PUT that passes the gate for an id that is not stored is answered 404
\* and adds no listing and no image row.
C6_UpdateAbsentIs404 ==
    [][ ( /\ last'.op = "update"
          /\ last'.status \notin Rejected
          /\ last'.threw = 0
          /\ ~HasListing(last'.id) ) =>
          /\ last'.status = 404
          /\ listings' = listings
          /\ images' = images ]_vars

\* C7: no two stored listings share an identifier, no identifier is handed out
\* twice (deleted listings included), and the id a create answers with is the
\* id of the listing it stored.
C7_IdentifiersUnique ==
    /\ \A i, j \in DOMAIN listings : i # j => listings[i].id # listings[j].id
    /\ \A i, j \in DOMAIN created : i # j => created[i].id # created[j].id
    /\ \A i \in DOMAIN listings : \E k \in DOMAIN created : created[k].id = listings[i].id
    /\ (last.op = "create" /\ last.status \in {200, 201}) =>
          /\ created # <<>>
          /\ last.rid = created[Len(created)].id

\* C7 witness: a create was answered after an earlier listing had been deleted.
C7_Witness ==
    /\ last.op = "create"
    /\ last.status \in {200, 201}
    /\ Len(created) = 2
    /\ Len(listings) = 1

\* position of a listing in the order of creation
CreatedPos(id) == CHOOSE k \in DOMAIN created : created[k].id = id

CreatedAt(id) == created[CreatedPos(id)].at

\* C8 as stated: in every answer of GET /api/listings no listing comes after
\* one that was created before it.
C8_NewestCreatedFirst ==
    \A res \in getListings :
       \A i, j \in DOMAIN res :
          i < j => CreatedPos(res[i].id) > CreatedPos(res[j].id)

\* C8 amended: in every answer of GET /api/listings a listing comes after one
\* created before it only in a database variant and only when both were
\* created at the same clock reading; the json variant answers in reverse
\* order of creation.
C8_NewestFirstUpToTies ==
    \A res \in getListings :
       \A i, j \in DOMAIN res :
          (i < j /\ CreatedPos(res[i].id) < CreatedPos(res[j].id)) =>
             /\ variant # "json"
             /\ CreatedAt(res[i].id) = CreatedAt(res[j].id)

\* C8 witness: two listings created at different clock readings are stored and
\* the answer lists the later one first.
C8_Witness ==
    /\ Len(listings) = 2
    /\ CreatedAt(listings[1].id) # CreatedAt(listings[2].id)
    /\ \E res \in getListings : CreatedPos(res[1].id) > CreatedPos(res[2].id)

MissingRequired(b) == \E f \in {"title", "city", "price"} : b[f] \in {UNDEF, ""}

\* C9: a create that carries a valid credential and lacks title, city or price
\* is answered 400 and stores no listing and no image.
C9_MissingRequiredRejected ==
    [][ ( /\ last'.op = "create"
          /\ last'.cred
          /\ last'.threw = 0
          /\ MissingRequired(last'.body) ) =>
          /\ last'.status = 400
          /\ listings' = listings
          /\ images' = images ]_vars

\* C10: in the database variants GET /api/images/:id answers every stored
\* image that has not been deleted with the bytes and the content type of its
\* file part, and answers 404 for ids never assigned or deleted.
C10_ImageRoundTrip ==
    variant # "json" =>
      /\ \A u \in uploaded :
            u.id \notin deletedImages =>
              getImage(u.id) = [status |-> 200, type |-> u.mimetype, body |-> u.buffer]
      /\ \A id \in ImageIds :
            (id \notin Ids(uploaded) \/ id \in deletedImages) =>
              getImage(id).status = 404

\* C10 witness: an image stored by a create or an update is being served.
C10_Witness ==
    /\ variant # "json"
    /\ last.op \in {"create", "update"}
    /\ \E u \in uploaded : u.id \notin deletedImages /\ getImage(u.id).status = 200

\* does a listing own an image row: images.listing_id names it, or (header
\* variant) its image_id names the row
Owns(l, r) == IF variant = "header" THEN l.image_id = r.id ELSE r.listing_id = l.id

\* C11: in the database variants every stored image row is owned by exactly
\* one stored listing, also after a handler failed partway.
C11_EveryImageOwnedOnce ==
    variant # "json" =>
      \A r \in images :
         Cardinality({ i \in DOMAIN listings : Owns(listings[i], r) }) = 1

ErrorStatus(st) == st = 0 \/ st >= 400

\* C12: a create or update that passes the gate and ends in an error leaves
\* listings, image rows and the upload directory as they were; one that ends
\* in success has stored its listing fields and every one of its files.
C12_CreateUpdateAtomic ==
    [][ (last'.op \in {"create", "update"} /\ last'.status \notin Rejected) =>
          /\ ErrorStatus(last'.status) =>
                /\ listings' = listings
                /\ images' = images
                /\ uploadDir' = uploadDir
          /\ ~ErrorStatus(last'.status) =>
                /\ Cardinality(IF variant = "json" THEN uploadDir' \ uploadDir
                               ELSE Ids(images') \ Ids(images)) = last'.nfiles
                /\ last'.op = "create" =>
                      \E i \in DOMAIN listings' : listings'[i].id = last'.rid ]_vars

\* the last of {login with the correct password, logout} in the history of
\* the session a request belongs to is a login
LoggedIn(sid) == sid \in DOMAIN sessionLog /\ sessionLog[sid] = "login"

\* C14: in the session variant a create or delete is rejected with 403
\* exactly when the last of {correct login, logout} of its session is not a
\* login, and a login with a wrong password leaves the flag as it was.
C14_AcceptedIffLoggedIn ==
    [][ /\ (variant = "json" /\ last'.op \in {"create", "delete"}) =>
             (last'.status # 403 <=> LoggedIn(last'.sid))
        /\ (last'.op = "login" /\ last'.status = 401) => sessions' = sessions ]_vars

\* C14 witness: a create or delete of a session that logged in and then logged
\* out was rejected.
C14_Witness ==
    /\ variant = "json"
    /\ last.op \in {"create", "delete"}
    /\ last.status = 403
    /\ last.sid \in DOMAIN sessionLog
    /\ sessionLog[last.sid] = "logout"

\* an update is lost: the file lacks a listing whose create was answered with
\* success and whose delete was not, or holds one whose delete was answered
\* with success
Lost(st) ==
    LET stored == { st.listings[i].id : i \in DOMAIN st.listings }
    IN  \/ \E id \in st.acked \ st.deleted : id \notin stored
        \/ \E id \in st.deleted : id \in stored

\* two accepted mutating requests, one of them a create, are in flight together
RacingPair ==
    /\ Cardinality(inflight) = 2
    /\ \A r \in inflight : r.sid \in sessions
    /\ \E r \in inflight : r.op = "create"

Starts(i) == fbReqs[i].pc = "new" /\ fbReqs'[i].pc # "new"

\* request i is answered from the cache, without an upstream fetch
AnsweredFromCache(i) ==
    /\ fbReqs'[i].pc = "done"
    /\ ~fbReqs'[i].fetched
    /\ fbReqs'[i].res = fbCache.data
    /\ fbCache' = fbCache

Completes(i) == fbReqs[i].pc = "fetching" /\ fbReqs'[i].pc = "done"

\* C16: a request whose upstream fetch answers a non-ok status or throws is
\* answered [] and leaves FB_CACHE as it was; FB_CACHE changes only in a step
\* in which a fetch came back ok.
C16_FailureLeavesCache ==
    [][ /\ \A i \in 1..MaxFbRequests :
             (Completes(i) /\ fbReqs'[i].outcome \in {"not_ok", "throws"}) =>
                (fbReqs'[i].res = <<>> /\ fbCache' = fbCache)
        /\ fbCache' # fbCache =>
             \E i \in 1..MaxFbRequests :
                Completes(i) /\ fbReqs'[i].outcome \in {"ok_array", "ok_other"} ]_vars

\* C16 witness: a fetch failed while the cache held a result with data.
C16_Witness ==
    /\ ~fbCache.null
    /\ fbCache.data # <<>>
    /\ \E i \in 1..MaxFbRequests :
          fbReqs[i].pc = "done" /\ fbReqs[i].outcome \in {"not_ok", "throws"}

====
